---- MODULE Spec2Model ----
(***************************************************************************)
(* Model of src/app.py: the sales dashboard's pipeline                     *)
(*   load_data -> sidebar filters of main -> calculate_kpis, the chart     *)
(*   aggregations of main, calculate_insights.                             *)
(*                                                                         *)
(* A table is a sequence of rows; a row is a record with one field per     *)
(* column the pipeline reads, plus idx, the pandas index label read_csv    *)
(* gives the row (its position in the file).  Timestamps are ticks: a day  *)
(* has TicksPerDay of them, tick 0 of a day is midnight.  Prices and       *)
(* quantities are integers (the floating-point rounding of pandas' sums    *)
(* is outside this model).                                                 *)
(***************************************************************************)
EXTENDS Integers, Sequences, FiniteSets, TLC

\* ------------------------------------------------------------------ bounds
MaxRows == 2
MaxViewRows == 3
TicksPerDay == 2

\* ------------------------------------------------------- missing values
\* pandas' missing markers: NaT of a datetime column, NaN of an object
\* column.  fillna's defaults for the categorical columns.
NaT == -1
NaN == "NaN"
Unknown == "Unknown"
All == "All"

AllCols == {"data_pedido", "nome_produto", "categoria", "uf", "sexo",
            "faixa_etaria", "id_pedido", "id_cliente", "nome_completo",
            "quantidade", "preco_parcial"}

\* ------------------------------------------------------------- load_data
\* pd.to_datetime(col, errors='coerce'): a cell that is a timestamp parses
\* to its tick, anything else (empty, garbage) becomes NaT.
ToDatetime(s) ==
    CASE s = "2024-01-01 00:00" -> 0
      [] s = "2024-01-01 12:00" -> TicksPerDay \div 2
      [] s = "2024-01-02 00:00" -> TicksPerDay
      [] s = "2024-01-02 12:00" -> TicksPerDay + TicksPerDay \div 2
      [] OTHER -> NaT

\* pd.to_numeric(col, errors='coerce') followed by fillna(0): a cell that
\* is a number parses to it, anything else becomes NaN and then 0.
ToNumericFill0(s) ==
    CASE s = "0" -> 0
      [] s = "1" -> 1
      [] s = "2" -> 2
      [] s = "3" -> 3
      [] s = "50" -> 50
      [] s = "100" -> 100
      [] OTHER -> 0

\* read_csv: an empty cell of an object column is NaN.
ReadCell(s) == IF s = "" THEN NaN ELSE s

\* fillna of the five categorical columns: NaN becomes 'Unknown'.
FillUnknown(s) == IF ReadCell(s) = NaN THEN Unknown ELSE s

\* One row of the frame load_data returns.  id_pedido, id_cliente and
\* nome_completo are not in fillna's dictionary: their NaN stays.
LoadRow(r, i) ==
    [idx           |-> i,
     data_pedido   |-> ToDatetime(r.data_pedido),
     nome_produto  |-> FillUnknown(r.nome_produto),
     categoria     |-> FillUnknown(r.categoria),
     uf            |-> FillUnknown(r.uf),
     sexo          |-> FillUnknown(r.sexo),
     faixa_etaria  |-> FillUnknown(r.faixa_etaria),
     id_pedido     |-> ReadCell(r.id_pedido),
     id_cliente    |-> ReadCell(r.id_cliente),
     nome_completo |-> ReadCell(r.nome_completo),
     quantidade    |-> ToNumericFill0(r.quantidade),
     preco_parcial |-> ToNumericFill0(r.preco_parcial)]

load_data(rawTable) == [i \in 1..Len(rawTable) |-> LoadRow(rawTable[i], i - 1)]

\* ------------------------------------------------------ frame primitives
\* df[mask], boolean indexing, keeps the rows whose mask is true, in order:
\* SelectSeq.

\* series.notna().any()
AnyNotNaT(df) == \E i \in 1..Len(df) : df[i].data_pedido # NaT

Min(S) == CHOOSE x \in S : \A y \in S : x <= y
Max(S) == CHOOSE x \in S : \A y \in S : x >= y

\* series.unique() as a set
Unique(df, col) == {df[i][col] : i \in 1..Len(df)}

RECURSIVE SumCol(_, _)
\* series.sum()
SumCol(df, col) ==
    IF Len(df) = 0 THEN 0 ELSE df[1][col] + SumCol(Tail(df), col)

\* ------------------------------------------------------- sidebar filters
\* The date picker holds calendar days; pd.to_datetime(day) is that day's
\* midnight.
DayOf(ts) == ts \div TicksPerDay
Midnight(day) == day * TicksPerDay

\* Line 195: the date widget is shown only for a frame that has the column
\* and at least one parsed date in it.
DateWidgetShown(df, cols) == "data_pedido" \in cols /\ AnyNotNaT(df)

\* What st.sidebar.date_input can return, given min_value and max_value:
\* a (start, end) pair within them, or a 1-tuple while the user has picked
\* only the start.
DateChoices(df) ==
    LET ts == {df[i].data_pedido : i \in 1..Len(df)} \ {NaT}
        lo == DayOf(Min(ts))
        hi == DayOf(Max(ts))
    IN  {p \in (lo..hi) \X (lo..hi) : p[1] <= p[2]} \cup {<<s>> : s \in lo..hi}

\* A comparison slip: the end of the range taken as exclusive.
InDateRangeEndExclusive(r, date_range) ==
    /\ r.data_pedido # NaT
    /\ r.data_pedido >= Midnight(date_range[1])
    /\ r.data_pedido < Midnight(date_range[2])

\* Lines 207-208: NaT compares false with everything.
InDateRange(r, date_range) ==
    /\ r.data_pedido # NaT
    /\ r.data_pedido >= Midnight(date_range[1])
    /\ r.data_pedido <= Midnight(date_range[2])

\* Lines 206-208.
DateFilter(df, date_range) ==
    IF Len(date_range) = 2
    THEN LET Keep(r) == InDateRange(r, date_range) IN SelectSeq(df, Keep)
    ELSE df

\* Lines 212-213 (and 219, 226, 233): the select box offers 'All' and the
\* values present in the current frame.
SelectChoices(df, col) == {All} \cup Unique(df, col)

\* Lines 214-215 (and 221, 228, 235).
EqualsFilter(df, col, selected) ==
    IF selected # All
    THEN LET Keep(r) == r[col] = selected IN SelectSeq(df, Keep)
    ELSE df

\* Lines 239-244: the number input, min_value 0.0.
MinRevenueChoices == {0, 75}

\* A comparison slip: > for >=.
MinRevenueFilterStrict(df, min_revenue) ==
    LET Keep(r) == r.preco_parcial > min_revenue IN SelectSeq(df, Keep)

RECURSIVE Reversed(_)
Reversed(s) == IF Len(s) = 0 THEN <<>> ELSE Append(Reversed(Tail(s)), Head(s))

\* The kept rows handed on last row first (a [::-1] left on the result).
MinRevenueFilterReversed(df, min_revenue) ==
    LET Keep(r) == r.preco_parcial >= min_revenue
    IN  Reversed(SelectSeq(df, Keep))

\* Line 245.
MinRevenueFilter(df, min_revenue) ==
    LET Keep(r) == r.preco_parcial >= min_revenue IN SelectSeq(df, Keep)

\* Lines 195-245 as one function of the frame and of what the widgets
\* returned: the filters in program order, each behind its guard.
ApplyFilters(view, present, o) ==
    LET dated == IF DateWidgetShown(view, present)
                 THEN DateFilter(view, o.date_range) ELSE view
        Step(v, col) == IF col \in present
                        THEN EqualsFilter(v, col, o[col]) ELSE v
        selected == Step(Step(Step(Step(dated, "nome_produto"), "categoria"),
                              "uf"), "sexo")
    IN  MinRevenueFilter(selected, o.min_revenue)

\* ------------------------------------------------------------ group-by
\* Python's order of the strings the model uses (code-point order), which
\* is the order groupby(sort=True) leaves its group keys in.
KeyOrder == <<"18-25", "26-35", "A", "All", "Ana", "B", "Bia", "F", "M",
              "NaN", "RJ", "SP", "Unknown", "X", "c1", "c2", "o1", "o2">>
Rank(k) == CHOOSE i \in 1..Len(KeyOrder) : KeyOrder[i] = k

\* The grouping dimensions: a column name, the calendar day of the order
\* date (df['data_pedido'].dt.date), or the (id_cliente, nome_completo) pair.
DateDim == "data_pedido.dt.date"
CustomerDim == "id_cliente,nome_completo"

KeyOf(r, dim) ==
    CASE dim = DateDim ->
             IF r.data_pedido = NaT THEN NaT ELSE DayOf(r.data_pedido)
      [] dim = CustomerDim -> <<r.id_cliente, r.nome_completo>>
      [] OTHER -> r[dim]

\* groupby's default dropna=True: a row whose key (or, for a pair, either
\* part of it) is missing belongs to no group.
KeyIsNA(k, dim) ==
    CASE dim = DateDim -> k = NaT
      [] dim = CustomerDim -> k[1] = NaN \/ k[2] = NaN
      [] OTHER -> k = NaN

KeyLess(a, b, dim) ==
    CASE dim = DateDim -> a < b
      [] dim = CustomerDim ->
             \/ Rank(a[1]) < Rank(b[1])
             \/ a[1] = b[1] /\ Rank(a[2]) < Rank(b[2])
      [] OTHER -> Rank(a) < Rank(b)

RECURSIVE SortKeys(_, _)
SortKeys(S, dim) ==
    IF S = {} THEN <<>>
    ELSE LET m == CHOOSE x \in S : \A y \in S \ {x} : KeyLess(x, y, dim)
         IN  <<m>> \o SortKeys(S \ {m}, dim)

GroupKeys(df, dim) ==
    {k \in {KeyOf(df[i], dim) : i \in 1..Len(df)} : ~KeyIsNA(k, dim)}

GroupTotal(df, dim, k, measure) ==
    LET InGroup(r) == KeyOf(r, dim) = k IN SumCol(SelectSeq(df, InGroup), measure)

\* df.groupby(dim)[measure].sum(): one (key, sum) entry per group, keys
\* ascending.
GroupBySum(df, dim, measure) ==
    LET keys == SortKeys(GroupKeys(df, dim), dim)
    IN  [i \in 1..Len(keys) |->
            [key |-> keys[i], val |-> GroupTotal(df, dim, keys[i], measure)]]

IsDescending(s) == \A i \in 1..(Len(s) - 1) : s[i].val >= s[i + 1].val

IndexPermutations(n) ==
    {p \in [1..n -> 1..n] : \A i, j \in 1..n : p[i] = p[j] => i = j}

\* ascending=False left out: the entries in ascending order of value.
SortValuesAsc(s) ==
    {t \in {[i \in 1..Len(s) |-> s[p[i]]] : p \in IndexPermutations(Len(s))} :
        \A i \in 1..(Len(t) - 1) : t[i].val <= t[i + 1].val}

\* series.sort_values(ascending=False) with the default kind='quicksort':
\* the entries in descending order of value.  The sort is not stable, so
\* the order among equal values is whatever the numpy build yields: every
\* descending arrangement is a possible outcome.
SortValuesDesc(s) ==
    {t \in {[i \in 1..Len(s) |-> s[p[i]]] : p \in IndexPermutations(Len(s))} :
        IsDescending(t)}

TopN == 10

\* series.head(n)
HeadN(s, n) == SubSeq(s, 1, IF Len(s) < n THEN Len(s) ELSE n)

\* len(series) for nunique(): the rows are counted.
CountRows(df, col) == Len(df)

\* series.nunique(): NaN is not counted.
NUnique(df, col) == Cardinality(Unique(df, col) \ {NaN})

\* ----------------------------------------------------------- calculate_kpis
RECURSIVE Gcd(_, _)
Gcd(a, b) == IF b = 0 THEN a ELSE Gcd(b, a % b)

\* The value of a / b (b > 0, a >= 0) as a fraction in lowest terms.
Ratio(a, b) ==
    LET g == Gcd(a, b) IN [num |-> a \div g, den |-> b \div g]

Zero == [num |-> 0, den |-> 1]

calculate_kpis(df) ==
    LET total_revenue == SumCol(df, "preco_parcial")
        total_orders == NUnique(df, "id_pedido")
        unique_customers == NUnique(df, "id_cliente")
        total_quantity == SumCol(df, "quantidade")
    IN  [total_revenue    |-> total_revenue,
         total_orders     |-> total_orders,
         unique_customers |-> unique_customers,
         total_quantity   |-> total_quantity,
         avg_ticket       |-> IF total_orders > 0
                              THEN Ratio(total_revenue, total_orders)
                              ELSE Zero]

\* ------------------------------------------------------- calculate_insights
NA == "N/A"

\* Another sentinel for the empty series.
TopKeyUnknown(ranking) == IF Len(ranking) > 0 THEN ranking[1].key ELSE Unknown

\* index[0] if len(series) > 0 else "N/A"
TopKey(ranking) == IF Len(ranking) > 0 THEN ranking[1].key ELSE NA

\* iloc[0] if len(series) > 0 else 0
TopVal(ranking) == IF Len(ranking) > 0 THEN ranking[1].val ELSE 0

\* Lines 151-157: the name is the second part of the pair.
TopCustomerName(ranking) == IF Len(ranking) > 0 THEN ranking[1].key[2] ELSE NA

InsightRankings(df) ==
    {[product_quantity |-> pq, category_revenue |-> cr, state_revenue |-> sr,
      age_revenue |-> ar, customer_spend |-> cs] :
        pq \in SortValuesDesc(GroupBySum(df, "nome_produto", "quantidade")),
        cr \in SortValuesDesc(GroupBySum(df, "categoria", "preco_parcial")),
        sr \in SortValuesDesc(GroupBySum(df, "uf", "preco_parcial")),
        ar \in SortValuesDesc(GroupBySum(df, "faixa_etaria", "preco_parcial")),
        cs \in SortValuesDesc(GroupBySum(df, CustomerDim, "preco_parcial"))}

\* The dictionary calculate_insights returns, given the five sorted series.
InsightsOf(rk) ==
    [best_selling_product     |-> TopKey(rk.product_quantity),
     best_selling_quantity    |-> TopVal(rk.product_quantity),
     most_profitable_category |-> TopKey(rk.category_revenue),
     category_revenue         |-> TopVal(rk.category_revenue),
     highest_revenue_state    |-> TopKey(rk.state_revenue),
     state_revenue            |-> TopVal(rk.state_revenue),
     highest_spending_age     |-> TopKey(rk.age_revenue),
     age_revenue              |-> TopVal(rk.age_revenue),
     top_customer_name        |-> TopCustomerName(rk.customer_spend),
     top_customer_spend       |-> TopVal(rk.customer_spend)]

calculate_insights(df) == {InsightsOf(rk) : rk \in InsightRankings(df)}

\* -------------------------------------------------------------- inputs
\* A CSV line whose cells are all well formed.
BaseRaw ==
    [data_pedido   |-> "2024-01-01 00:00",
     nome_produto  |-> "A",
     categoria     |-> "X",
     uf            |-> "SP",
     sexo          |-> "F",
     faixa_etaria  |-> "18-25",
     id_pedido     |-> "o1",
     id_cliente    |-> "c1",
     nome_completo |-> "Ana",
     quantidade    |-> "1",
     preco_parcial |-> "100"]

\* A line that differs from BaseRaw in every cell the filters read.
OtherRaw ==
    [BaseRaw EXCEPT !.data_pedido = "2024-01-02 00:00", !.nome_produto = "B",
                    !.categoria = "", !.uf = "RJ", !.sexo = "M",
                    !.preco_parcial = "50"]

\* Other cells a line may hold in the columns the filters read ...
FilterCells ==
    [data_pedido   |-> {"2024-01-01 12:00", "2024-01-02 00:00", "n/a"},
     nome_produto  |-> {"B"},
     categoria     |-> {""},
     uf            |-> {"RJ"},
     sexo          |-> {"M"},
     preco_parcial |-> {"50", "abc"}]

\* ... and in the columns the calculators read.
CalcCells ==
    [data_pedido   |-> {"2024-01-01 12:00", "2024-01-02 12:00"},
     nome_produto  |-> {"B"},
     categoria     |-> {""},
     uf            |-> {"RJ"},
     sexo          |-> {"M"},
     faixa_etaria  |-> {"26-35"},
     id_pedido     |-> {"o2", ""},
     id_cliente    |-> {"c2", ""},
     nome_completo |-> {"Bia", ""},
     quantidade    |-> {"2"},
     preco_parcial |-> {"50"}]

\* BaseRaw, and BaseRaw with one cell replaced.
RawRows(cells) ==
    {BaseRaw} \cup
    UNION {{[BaseRaw EXCEPT ![c] = v] : v \in cells[c]} : c \in DOMAIN cells}

Tables(rows, n) == UNION {[1..k -> rows] : k \in 0..n}

\* The columns a CSV may lack, one at a time.
Schemas == {AllCols} \cup {AllCols \ {c} : c \in AllCols}

\* --------------------------------------------------------------- state
VARIABLES
    raw,        \* the CSV's lines
    cols,       \* the CSV's columns
    table,      \* the frame load_data returned
    df,         \* main's df: the current view
    opts,       \* what the sidebar widgets returned so far
    pc,         \* main's position
    outcome,    \* how main ended
    error,      \* the column a KeyError names
    calls,      \* the calculators invoked, each with the view it was given
    kpis,       \* calculate_kpis' dictionary
    charts,     \* the series of the chart section, by name
    rankings,   \* the five sorted series inside calculate_insights
    insights    \* calculate_insights' dictionary

vars == <<raw, cols, table, df, opts, pc, outcome, error, calls, kpis, charts,
          rankings, insights>>

NoOpts ==
    [date_range |-> <<>>, nome_produto |-> All, categoria |-> All, uf |-> All,
     sexo |-> All, min_revenue |-> 0]

\* Python's None: no frame, no result yet.
None == [none |-> TRUE]

Fresh ==
    /\ opts = NoOpts
    /\ outcome = "running" /\ error = ""
    /\ calls = {}
    /\ kpis = None /\ charts = None /\ rankings = None /\ insights = None

\* main starts on a CSV whose lines vary in the filtered columns, or on a
\* CSV that lacks a column.
Init ==
    /\ \/ raw \in Tables(RawRows(FilterCells), MaxRows) /\ cols = AllCols
       \/ raw \in Tables({BaseRaw, OtherRaw}, MaxRows) /\ cols \in Schemas
    /\ table = None /\ df = None
    /\ pc = "load"
    /\ Fresh

\* ----------------------------------------------------------------- main
\* Line 170: load_data returned a frame.
LoadOk ==
    /\ pc = "load"
    /\ table' = load_data(raw)
    /\ df' = table'
    /\ pc' = "date_filter"
    /\ UNCHANGED <<raw, cols, opts, outcome, error, calls, kpis, charts,
                   rankings, insights>>

\* Lines 95-97 and 172-174: read_csv raised (no such file, not a CSV),
\* load_data returned None and main returns.
LoadFail ==
    /\ pc = "load"
    /\ outcome' = "load_failed"
    /\ pc' = "done"
    /\ UNCHANGED <<raw, cols, table, df, opts, error, calls, kpis, charts,
                   rankings, insights>>

\* Lines 195-208.
DateStep ==
    /\ pc = "date_filter"
    /\ IF DateWidgetShown(df, cols)
       THEN \E date_range \in DateChoices(df) :
                /\ opts' = [opts EXCEPT !.date_range = date_range]
                /\ df' = DateFilter(df, date_range)
       ELSE UNCHANGED <<opts, df>>
    /\ pc' = "product_filter"
    /\ UNCHANGED <<raw, cols, table, outcome, error, calls, kpis, charts,
                   rankings, insights>>

\* Lines 211-215, and the same shape at 218-222, 225-229, 232-236.
SelectStep(here, col, next) ==
    /\ pc = here
    /\ IF col \in cols
       THEN \E selected \in SelectChoices(df, col) :
                /\ opts' = [opts EXCEPT ![col] = selected]
                /\ df' = EqualsFilter(df, col, selected)
       ELSE UNCHANGED <<opts, df>>
    /\ pc' = next
    /\ UNCHANGED <<raw, cols, table, outcome, error, calls, kpis, charts,
                   rankings, insights>>

ProductStep == SelectStep("product_filter", "nome_produto", "category_filter")
CategoryStep == SelectStep("category_filter", "categoria", "state_filter")
StateStep == SelectStep("state_filter", "uf", "gender_filter")
GenderStep == SelectStep("gender_filter", "sexo", "min_revenue")

\* An access to a column the frame lacks raises KeyError, which ends main.
Raise(col) ==
    /\ outcome' = "KeyError"
    /\ error' = col
    /\ pc' = "done"

\* The first column of a sequence of accesses that the frame lacks, or "".
FirstMissing(accesses, present) ==
    IF \A i \in 1..Len(accesses) : accesses[i] \in present THEN ""
    ELSE accesses[Min({i \in 1..Len(accesses) : accesses[i] \notin present})]

\* Lines 239-245.
MinRevenueStep ==
    /\ pc = "min_revenue"
    /\ \E min_revenue \in MinRevenueChoices :
           /\ opts' = [opts EXCEPT !.min_revenue = min_revenue]
           /\ IF "preco_parcial" \in cols
              THEN /\ df' = MinRevenueFilter(df, min_revenue)
                   /\ pc' = "empty_check"
                   /\ UNCHANGED <<outcome, error>>
              ELSE /\ Raise("preco_parcial")
                   /\ UNCHANGED df
    /\ UNCHANGED <<raw, cols, table, calls, kpis, charts, rankings, insights>>

\* The check left out: main goes on to the calculators whatever the view.
EmptyCheckSkipped ==
    /\ pc = "empty_check"
    /\ pc' = "kpis"
    /\ UNCHANGED <<raw, cols, table, df, opts, outcome, error, calls, kpis,
                   charts, rankings, insights>>

\* Lines 251-253.
EmptyCheck ==
    /\ pc = "empty_check"
    /\ IF Len(df) = 0
       THEN outcome' = "no_data" /\ pc' = "done"
       ELSE pc' = "kpis" /\ UNCHANGED outcome
    /\ UNCHANGED <<raw, cols, table, df, opts, error, calls, kpis, charts,
                   rankings, insights>>

Call(fn) == [fn |-> fn, view |-> df]

KpiAccesses == <<"preco_parcial", "id_pedido", "id_cliente", "quantidade">>

\* Line 260.
Kpis ==
    /\ pc = "kpis"
    /\ calls' = calls \cup {Call("calculate_kpis")}
    /\ LET missing == FirstMissing(KpiAccesses, cols)
       IN  IF missing = ""
           THEN /\ kpis' = calculate_kpis(df)
                /\ pc' = "charts"
                /\ UNCHANGED <<outcome, error>>
           ELSE /\ Raise(missing)
                /\ UNCHANGED kpis
    /\ UNCHANGED <<raw, cols, table, df, opts, charts, rankings, insights>>

\* ------------------------------------------------- main's chart section
\* The group-bys of lines 302-418, in program order.
ChartOrder ==
    <<"revenue_time", "category_revenue", "top_products_revenue",
      "top_products_quantity", "state_revenue", "gender_revenue",
      "order_totals">>

\* The column each one groups by ...
ChartCol(name) ==
    CASE name = "revenue_time" -> "data_pedido"
      [] name = "category_revenue" -> "categoria"
      [] name = "top_products_revenue" -> "nome_produto"
      [] name = "top_products_quantity" -> "nome_produto"
      [] name = "state_revenue" -> "uf"
      [] name = "gender_revenue" -> "sexo"
      [] name = "order_totals" -> "id_pedido"

ChartDim(name) == IF name = "revenue_time" THEN DateDim ELSE ChartCol(name)

\* ... the column it sums ...
ChartMeasure(name) ==
    IF name = "top_products_quantity" THEN "quantidade" ELSE "preco_parcial"

\* ... whether sort_values(ascending=False) follows, and head(10).
ChartSorted(name) ==
    name \in {"category_revenue", "top_products_revenue",
              "top_products_quantity", "state_revenue"}
ChartTop(name) == name \in {"top_products_revenue", "top_products_quantity"}

\* The series a chart may be drawn from.
ChartOutcomes(view, name) ==
    LET grouped == GroupBySum(view, ChartDim(name), ChartMeasure(name))
    IN  IF ChartSorted(name)
        THEN {IF ChartTop(name) THEN HeadN(t, TopN) ELSE t :
                 t \in SortValuesDesc(grouped)}
        ELSE {grouped}

\* Line 302: the time series is computed only for a frame that has the
\* order date column and a parsed date in it; otherwise it is passed over.
TimeSeriesShown(view, present) == "data_pedido" \in present /\ AnyNotNaT(view)

\* The KeyError of a group-by swallowed.
ChartsMissingSwallowed(present) == ""

\* The column whose absence stops the chart section (none: "").
ChartsMissing(present) ==
    FirstMissing([i \in 1..(Len(ChartOrder) - 1) |-> ChartCol(ChartOrder[i + 1])],
                 present)

\* The charts the section gets to compute: those before the first group-by
\* that raises, the time series only when it is shown.
ChartsComputed(view, present) ==
    {ChartOrder[i] : i \in
        {j \in 1..Len(ChartOrder) :
            /\ j = 1 => TimeSeriesShown(view, present)
            /\ \A k \in 2..j : ChartCol(ChartOrder[k]) \in present}}

ChartRuns(view, present) ==
    {[name \in ChartsComputed(view, present) |->
        CASE name = "category_revenue" -> cr
          [] name = "top_products_revenue" -> pr
          [] name = "top_products_quantity" -> pq
          [] name = "state_revenue" -> sr
          [] OTHER -> GroupBySum(view, ChartDim(name), ChartMeasure(name))] :
        cr \in ChartOutcomes(view, "category_revenue"),
        pr \in ChartOutcomes(view, "top_products_revenue"),
        pq \in ChartOutcomes(view, "top_products_quantity"),
        sr \in ChartOutcomes(view, "state_revenue")}

\* Lines 302-434.
Charts ==
    /\ pc = "charts"
    /\ calls' = calls \cup {Call(name) : name \in ChartsComputed(df, cols)}
    /\ \E run \in ChartRuns(df, cols) : charts' = run
    /\ LET missing == ChartsMissing(cols)
       IN  IF missing = ""
           THEN pc' = "insights" /\ UNCHANGED <<outcome, error>>
           ELSE Raise(missing)
    /\ UNCHANGED <<raw, cols, table, df, opts, kpis, rankings, insights>>

InsightAccesses ==
    <<"nome_produto", "quantidade", "categoria", "preco_parcial", "uf",
      "faixa_etaria", "id_cliente", "nome_completo">>

\* Line 443, and the end of main.
Insights ==
    /\ pc = "insights"
    /\ calls' = calls \cup {Call("calculate_insights")}
    /\ LET missing == FirstMissing(InsightAccesses, cols)
       IN  IF missing = ""
           THEN /\ \E rk \in InsightRankings(df) :
                       /\ rankings' = rk
                       /\ insights' = InsightsOf(rk)
                /\ outcome' = "rendered"
                /\ pc' = "done"
                /\ UNCHANGED error
           ELSE /\ Raise(missing)
                /\ UNCHANGED <<rankings, insights>>
    /\ UNCHANGED <<raw, cols, table, df, opts, kpis, charts>>

Next ==
    \/ LoadOk
    \/ LoadFail
    \/ DateStep
    \/ ProductStep
    \/ CategoryStep
    \/ StateStep
    \/ GenderStep
    \/ MinRevenueStep
    \/ EmptyCheck
    \/ Kpis
    \/ Charts
    \/ Insights

Spec == Init /\ [][Next]_vars

\* ------------------------------------------- the calculators on any view
\* The calculators applied to a loaded frame as it is, the empty one
\* included: the lines vary in the columns the calculators read.
InitCalc ==
    /\ raw \in Tables(RawRows(CalcCells), MaxViewRows)
    /\ cols = AllCols
    /\ table = load_data(raw)
    /\ df = table
    /\ pc = "kpis"
    /\ Fresh

NextCalc ==
    \/ Kpis
    \/ Charts
    \/ Insights

SpecCalc == InitCalc /\ [][NextCalc]_vars

\* ====================================================================
\* Properties
\* ====================================================================
\* The filter pipeline of lines 195-245 has run to its end.
FiltersFinished ==
    \/ pc \in {"empty_check", "kpis", "charts", "insights"}
    \/ pc = "done" /\ outcome \in {"no_data", "rendered"}
    \/ pc = "done" /\ outcome = "KeyError" /\ calls # {}

\* A row meets the date option: the option is a complete range and the
\* row's timestamp lies between the midnights of its two days.
MeetsDate(r, o) ==
    Len(o.date_range) = 2 =>
        /\ r.data_pedido # NaT
        /\ Midnight(o.date_range[1]) <= r.data_pedido
        /\ r.data_pedido <= Midnight(o.date_range[2])

\* A row meets a select box: 'All', or the row's value is the selected one.
MeetsSelect(r, o, col) == o[col] = All \/ r[col] = o[col]

MeetsAll(r, o) ==
    /\ MeetsDate(r, o)
    /\ \A col \in {"nome_produto", "categoria", "uf", "sexo"} :
           MeetsSelect(r, o, col)
    /\ r.preco_parcial >= o.min_revenue

Rows(view) == {view[i] : i \in 1..Len(view)}

ActiveSelects(o) ==
    {col \in {"nome_produto", "categoria", "uf", "sexo"} : o[col] # All}

\* C1: once the filters have run, the view holds exactly the rows of the
\* loaded table that meet every option at once: the date range (when one
\* was given), the four select boxes (where not 'All') and the minimum
\* revenue.
C1_ViewIsConjunction ==
    FiltersFinished =>
        Rows(df) = {r \in Rows(table) : MeetsAll(r, opts)}

\* C1 witness: two select boxes are set, a row was dropped and a row kept.
C1_Witness ==
    /\ FiltersFinished
    /\ Cardinality(ActiveSelects(opts)) >= 2
    /\ Len(df) >= 1
    /\ Len(df) < Len(table)

DateStepDone == pc = "product_filter"

\* C2 as stated: after the date filter, when the table has the order date
\* column no row with a missing date is left and the rows left are those
\* within the range; only a table without the column is left unfiltered.
C2_AsStated ==
    DateStepDone =>
        IF "data_pedido" \in cols
        THEN /\ \A r \in Rows(df) : r.data_pedido # NaT
             /\ Len(opts.date_range) = 2 =>
                    Rows(df) = {r \in Rows(table) : MeetsDate(r, opts)}
        ELSE df = table

\* The date filter runs: the column is there, it holds a parsed date, and
\* the picker returned both ends of the range.
DateFilterRuns ==
    /\ "data_pedido" \in cols
    /\ \E r \in Rows(table) : r.data_pedido # NaT
    /\ Len(opts.date_range) = 2

\* C2 amended: when the date filter runs, the view is exactly the rows with
\* a parsed date whose timestamp lies between midnight of the start day and
\* midnight of the end day; when it does not run (column absent, no parsed
\* date in the column, or a one-day selection) the view is the whole table,
\* rows with a missing date included.
C2_DateFilter ==
    DateStepDone =>
        IF DateFilterRuns
        THEN /\ Rows(df) =
                    {r \in Rows(table) :
                        /\ r.data_pedido # NaT
                        /\ r.data_pedido >= opts.date_range[1] * TicksPerDay
                        /\ r.data_pedido <= opts.date_range[2] * TicksPerDay}
             /\ \A r \in Rows(df) : r.data_pedido # NaT
        ELSE df = table

\* C2 witness: the filter ran on a table with a missing date, dropped that
\* row and kept another.
C2_Witness ==
    /\ DateStepDone
    /\ DateFilterRuns
    /\ \E r \in Rows(table) : r.data_pedido = NaT
    /\ Len(df) >= 1

\* C3: filtering the view again with the same options changes nothing, and
\* the view's rows stand in the order they have in the table.
C3_IdempotentOrdered ==
    FiltersFinished =>
        /\ ApplyFilters(table, cols, opts) = df
        /\ ApplyFilters(df, cols, opts) = df
        /\ \A i, j \in 1..Len(df) : i < j => df[i].idx < df[j].idx

\* C3 witness: a view of two rows left by a date range and a select box.
C3_Witness ==
    /\ FiltersFinished
    /\ Len(df) >= 2
    /\ Len(opts.date_range) = 2
    /\ ActiveSelects(opts) # {}

Fns == {c.fn : c \in calls}

\* C10: a calculator or group-by is invoked only once the filters have
\* run, only on a non-empty view, and each on the same view, the final
\* filtered one; a failed load or an empty view ends main with none of
\* them invoked, and a run that renders has invoked them all.
C10_CalculatorsAfterFilters ==
    /\ calls # {} => FiltersFinished
    /\ \A c \in calls :
           /\ c.view = df
           /\ c.view = ApplyFilters(table, cols, opts)
           /\ Len(c.view) > 0
    /\ outcome \in {"load_failed", "no_data"} =>
           /\ pc = "done"
           /\ calls = {}
           /\ kpis = None /\ charts = None /\ insights = None
    /\ outcome = "no_data" <=> (pc = "done" /\ FiltersFinished /\ Len(df) = 0)
    /\ outcome = "rendered" =>
           {"calculate_kpis", "calculate_insights", "category_revenue",
            "order_totals"} \subseteq Fns

\* C10 witness: main rendered a view its filters had narrowed.
C10_Witness ==
    /\ outcome = "rendered"
    /\ Len(df) < Len(table)

\* ------------------------------------------------------- the calculators
KpisReturned == kpis # None
InsightsReturned == pc = "done" /\ outcome = "rendered"

RECURSIVE RowSum(_, _, _)
\* The sum of a column over the first n rows of a view.
RowSum(view, col, n) ==
    IF n = 0 THEN 0 ELSE RowSum(view, col, n - 1) + view[n][col]

OrderIds(view) == {view[i].id_pedido : i \in 1..Len(view)} \ {NaN}

\* C4: avg_ticket is the revenue of the view's rows divided by the number
\* of distinct order ids in the view, and 0 for a view without an order id.
C4_AvgTicket ==
    KpisReturned =>
        LET revenue == RowSum(df, "preco_parcial", Len(df))
            orders == Cardinality(OrderIds(df))
        IN  /\ kpis.total_revenue = revenue
            /\ kpis.total_orders = orders
            /\ orders > 0 =>
                   /\ kpis.avg_ticket.den > 0
                   /\ kpis.avg_ticket.num * orders = revenue * kpis.avg_ticket.den
            /\ orders = 0 => kpis.avg_ticket = Zero
            /\ outcome # "KeyError"

\* C4 witness: KPIs of a view in which one order has several rows.
C4_Witness ==
    /\ KpisReturned
    /\ kpis.total_orders >= 1
    /\ kpis.total_orders < Len(df)
    /\ kpis.total_revenue > 0

ZeroKpis ==
    [total_revenue |-> 0, total_orders |-> 0, unique_customers |-> 0,
     total_quantity |-> 0, avg_ticket |-> Zero]

SentinelInsights ==
    [best_selling_product     |-> "N/A", best_selling_quantity |-> 0,
     most_profitable_category |-> "N/A", category_revenue      |-> 0,
     highest_revenue_state    |-> "N/A", state_revenue         |-> 0,
     highest_spending_age     |-> "N/A", age_revenue           |-> 0,
     top_customer_name        |-> "N/A", top_customer_spend    |-> 0]

\* C5: on the empty view calculate_kpis returns five zeros,
\* calculate_insights returns "N/A" and 0 five times, and nothing is raised.
C5_EmptyView ==
    Len(df) = 0 =>
        /\ KpisReturned => kpis = ZeroKpis
        /\ pc \in {"charts", "insights", "done"} => KpisReturned
        /\ pc = "done" => InsightsReturned /\ insights = SentinelInsights
        /\ outcome # "KeyError"

\* C5 witness: both calculators have returned on the empty view.
C5_Witness ==
    /\ Len(df) = 0
    /\ InsightsReturned
    /\ KpisReturned

\* The keys a view's rows hold in a dimension, a missing one included, and
\* the measure summed over the rows of one key.
KeysIn(view, dim) == {KeyOf(view[i], dim) : i \in 1..Len(view)}

RECURSIVE KeyTotal(_, _, _, _, _)
KeyTotal(view, dim, k, measure, n) ==
    IF n = 0 THEN 0
    ELSE KeyTotal(view, dim, k, measure, n - 1) +
         (IF KeyOf(view[n], dim) = k THEN view[n][measure] ELSE 0)

MaxTotal(view, dim, measure) ==
    Max({KeyTotal(view, dim, k, measure, Len(view)) : k \in KeysIn(view, dim)})

\* C6 as stated: for a non-empty view each insight names a key some row of
\* the view holds (so none is "N/A") and reports the largest sum any key
\* of its dimension has in the view.
C6_AsStated ==
    (InsightsReturned /\ Len(df) > 0) =>
        /\ insights.best_selling_product \in KeysIn(df, "nome_produto")
        /\ insights.best_selling_quantity = MaxTotal(df, "nome_produto", "quantidade")
        /\ insights.most_profitable_category \in KeysIn(df, "categoria")
        /\ insights.category_revenue = MaxTotal(df, "categoria", "preco_parcial")
        /\ insights.highest_revenue_state \in KeysIn(df, "uf")
        /\ insights.state_revenue = MaxTotal(df, "uf", "preco_parcial")
        /\ insights.highest_spending_age \in KeysIn(df, "faixa_etaria")
        /\ insights.age_revenue = MaxTotal(df, "faixa_etaria", "preco_parcial")
        /\ insights.top_customer_name \in KeysIn(df, "nome_completo")
        /\ insights.top_customer_name # NA
        /\ insights.top_customer_spend = MaxTotal(df, CustomerDim, "preco_parcial")

\* The sorted series inside calculate_insights, each with its dimension
\* and measure; those of the chart section are charts' sorted entries.
RankingNames ==
    {"product_quantity", "category_revenue", "state_revenue", "age_revenue",
     "customer_spend"}

RankingDim(name) ==
    CASE name = "product_quantity" -> "nome_produto"
      [] name = "category_revenue" -> "categoria"
      [] name = "state_revenue" -> "uf"
      [] name = "age_revenue" -> "faixa_etaria"
      [] name = "customer_spend" -> CustomerDim

RankingMeasure(name) ==
    IF name = "product_quantity" THEN "quantidade" ELSE "preco_parcial"

SortedCharts == {n \in DOMAIN charts : ChartSorted(n)}

FirstRow(view, dim, k) == Min({i \in 1..Len(view) : KeyOf(view[i], dim) = k})

\* A series is descending and orders groups of equal sums by first row.
FirstSeenRanking(s, dim) ==
    /\ IsDescending(s)
    /\ \A i, j \in 1..Len(s) :
           (i < j /\ s[i].val = s[j].val) =>
               FirstRow(df, dim, s[i].key) < FirstRow(df, dim, s[j].key)

\* C7 as stated: every ranking is descending and, of two groups with equal
\* sums, the one whose first row comes earlier in the view is ranked first.
C7_AsStated ==
    InsightsReturned =>
        /\ \A n \in RankingNames : FirstSeenRanking(rankings[n], RankingDim(n))
        /\ \A n \in SortedCharts : FirstSeenRanking(charts[n], ChartDim(n))

Entries(s) == {s[i] : i \in 1..Len(s)}

\* A series is descending and lists, once each, the top groups of the
\* group-by: all of them, or the ten with the largest sums.
DescendingRanking(s, dim, measure, top) ==
    LET grouped == GroupBySum(df, dim, measure)
    IN  /\ IsDescending(s)
        /\ Len(s) = Cardinality(Entries(s))
        /\ Entries(s) \subseteq Entries(grouped)
        /\ Len(s) = IF top THEN Min({TopN, Len(grouped)}) ELSE Len(grouped)
        /\ \A e \in Entries(grouped) \ Entries(s) :
               \A i \in 1..Len(s) : s[i].val >= e.val

\* C7 amended: every ranking is descending by summed measure and lists each
\* group of the group-by once (a top-10 its first ten), and each insight is
\* the first entry of its ranking; among groups with equal sums the order
\* is not fixed by the rows' order.
C7_Rankings ==
    InsightsReturned =>
        /\ \A n \in RankingNames :
               DescendingRanking(rankings[n], RankingDim(n), RankingMeasure(n), FALSE)
        /\ \A n \in SortedCharts :
               DescendingRanking(charts[n], ChartDim(n), ChartMeasure(n), ChartTop(n))
        /\ Len(rankings.product_quantity) > 0 =>
               /\ insights.best_selling_product = rankings.product_quantity[1].key
               /\ insights.best_selling_quantity = rankings.product_quantity[1].val
        /\ Len(rankings.customer_spend) > 0 =>
               /\ insights.top_customer_name = rankings.customer_spend[1].key[2]
               /\ insights.top_customer_spend = rankings.customer_spend[1].val

\* C7 witness: two products with equal quantities, ranked with the one
\* whose first row comes later in the view on top.
C7_Witness ==
    /\ InsightsReturned
    /\ Len(rankings.product_quantity) = 2
    /\ rankings.product_quantity[1].val = rankings.product_quantity[2].val
    /\ FirstRow(df, "nome_produto", rankings.product_quantity[1].key) >
           FirstRow(df, "nome_produto", rankings.product_quantity[2].key)

RECURSIVE SeriesSum(_)
SeriesSum(s) == IF Len(s) = 0 THEN 0 ELSE s[1].val + SeriesSum(Tail(s))

\* C8 as stated: the group sums of every aggregation add up to the sum of
\* the measure over all rows of the view.
C8_AsStated ==
    InsightsReturned =>
        /\ \A n \in RankingNames :
               SeriesSum(rankings[n]) = RowSum(df, RankingMeasure(n), Len(df))
        /\ \A n \in DOMAIN charts :
               SeriesSum(charts[n]) = RowSum(df, ChartMeasure(n), Len(df))

\* ---------------------------------------------------- absent columns
ChartsRan == kpis # None /\ pc \in {"insights", "done"}
InsightsCalled == "calculate_insights" \in Fns

ChartNames == {ChartOrder[i] : i \in 1..Len(ChartOrder)}
InsightDims == {"nome_produto", "categoria", "uf", "faixa_etaria",
                "id_cliente", "nome_completo"}

\* C9 as stated: an aggregation whose dimension column is absent ends in
\* an error its caller sees; none is passed over in silence.
C9_AsStated ==
    /\ ChartsRan =>
           \A name \in ChartNames :
               ChartCol(name) \notin cols => outcome = "KeyError"
    /\ InsightsCalled =>
           \A col \in InsightDims : col \notin cols => outcome = "KeyError"

\* C9 amended: a group-by on an absent column raises KeyError naming the
\* column and leaves no series, except the revenue-over-time one: without
\* the order date column it is passed over, with no series and no error.
C9_AbsentColumn ==
    /\ ChartsRan =>
           /\ \A name \in ChartNames \ {"revenue_time"} :
                  ChartCol(name) \notin cols =>
                      /\ outcome = "KeyError"
                      /\ error \notin cols
                      /\ name \notin DOMAIN charts
           /\ "data_pedido" \notin cols =>
                  /\ "revenue_time" \notin DOMAIN charts
                  /\ error # "data_pedido"
                  /\ cols = AllCols \ {"data_pedido"} => outcome # "KeyError"
    /\ InsightsCalled =>
           \A col \in InsightDims :
               col \notin cols => outcome = "KeyError" /\ error = col

\* C9 witness: the chart section ran into a group-by on an absent column.
C9_Witness ==
    /\ ChartsRan
    /\ outcome = "KeyError"
    /\ error \in {ChartCol(name) : name \in ChartNames}
    /\ Len(df) > 0

====
